---- MODULE Spec2Model ----
(***************************************************************************)
(* Model of automation/autogenerate_notebooks_table.py: the pipeline that  *)
(* reads a CSV data file and a README, parses the data lines into          *)
(* TableEntry records, renders the two Markdown tables and splices them    *)
(* between the two sentinel lines of the README.                           *)
(*                                                                         *)
(* Text is modelled by TLA+ strings (Len, \o and SubSeq act on them        *)
(* character by character), a file by the sequence of its lines.           *)
(***************************************************************************)
EXTENDS Integers, Sequences, FiniteSets, TLC

VARIABLES
    data_file,      \* lines of the file at args.data_path (on disk)
    readme_file,    \* lines of the file at args.readme_path (on disk)
    pc,             \* position of the __main__ block
    csv_lines,      \* local csv_lines
    readme_lines,   \* local readme_lines
    table_entries,  \* local table_entries
    models_lines,   \* local models_lines
    APPLIED_lines,  \* local APPLIED_lines
    table_lines,    \* local table_lines
    error,          \* the uncaught exception that ended the run, or "none"
    run,            \* number of the current invocation of the script
    readme_before,  \* history: readme_file when the current run started
    prev_written    \* history: <<document>> written by the previous run, <<>> if none

vars == <<data_file, readme_file, pc, csv_lines, readme_lines, table_entries,
          models_lines, APPLIED_lines, table_lines, error, run, readme_before,
          prev_written>>

-----------------------------------------------------------------------------
(* Module-level constants of the script.                                   *)

NOTEBOOKS_ROOT_PATH == "https://github.com/roboflow-ai/notebooks/blob/main/notebooks"

NOTEBOOKS_COLAB_ROOT_PATH == "github/roboflow-ai/notebooks/blob/main/notebooks"

WARNING_HEADER ==
    << "<!---",
       "   WARNING: DO NOT EDIT THIS TABLE MANUALLY. IT IS AUTOMATICALLY GENERATED.",
       "   HEAD OVER TO CONTRIBUTING.MD FOR MORE DETAILS ON HOW TO MAKE CHANGES PROPERLY.",
       "-->" >>

TABLE_HEADER ==
    << "| **notebook** | **colab / kaggle** | **blog / youtube** | **repository / paper** |",
       "|:------------:|:-------------------------------------------------:|:---------------------------:|:----------------------:|" >>

MODELS_SECTION_HEADER == "## Model Experiments ({} notebooks)"

APPLIED_SECTION_HEADER == "## Applied computer vision in real world scenarios ({} notebooks)"

NOTEBOOK_LINK_PATTERN == "[{}]({}/{})"

OPEN_IN_COLAB_BADGE_PATTERN == "[![Colab](https://colab.research.google.com/assets/colab-badge.svg)](https://colab.research.google.com/{}/{})"

OPEN_IN_KAGGLE_BADGE_PATTERN == "[![Kaggle](https://kaggle.com/static/images/open-in-kaggle.svg)](https://kaggle.com/kernels/welcome?src={}/{})"

ROBOFLOW_BADGE_PATTERN == "[![Roboflow](https://raw.githubusercontent.com/roboflow-ai/notebooks/main/assets/badges/roboflow-blogpost.svg)]({})"

YOUTUBE_BADGE_PATTERN == "[![YouTube](https://badges.aleen42.com/src/youtube.svg)]({})"

GITHUB_BADGE_PATTERN == "[![GitHub](https://badges.aleen42.com/src/github.svg)]({})"

ARXIV_BADGE_PATTERN == "[![arXiv](https://img.shields.io/badge/arXiv-{}-b31b1b.svg)](https://arxiv.org/abs/{})"

AUTOGENERATED_NOTEBOOKS_TABLE_TOKEN == "<!--- AUTOGENERATED-NOTEBOOKS-TABLE -->"

-----------------------------------------------------------------------------
(* The Python string and list primitives the script uses.                  *)

Min(S) == CHOOSE m \in S : \A n \in S : m <= n

Max(S) == CHOOSE m \in S : \A n \in S : n <= m

CharAt(s, i) == SubSeq(s, i, i)

\* The characters str.strip() and str.rstrip() remove.
IsSpace(c) == c \in {" ", "\t", "\n", "\r", "\f"}

\* str.rstrip(): drop the trailing whitespace.
RECURSIVE rstrip(_)
rstrip(s) ==
    IF s # "" /\ IsSpace(CharAt(s, Len(s)))
    THEN rstrip(SubSeq(s, 1, Len(s) - 1))
    ELSE s

\* str.lstrip(): drop the leading whitespace.
RECURSIVE lstrip(_)
lstrip(s) ==
    IF s # "" /\ IsSpace(CharAt(s, 1))
    THEN lstrip(SubSeq(s, 2, Len(s)))
    ELSE s

\* str.strip(): drop the leading and the trailing whitespace.
strip(s) == lstrip(rstrip(s))

\* str.split(sep) for a one-character separator: the fields between the
\* occurrences of sep, empty fields included; one field when sep is absent.
split(s, sep) ==
    LET cuts   == {i \in 1..Len(s) : CharAt(s, i) = sep}
        n      == Cardinality(cuts)
        cut(k) == IF k = 0 THEN 0
                  ELSE IF k = n + 1 THEN Len(s) + 1
                  ELSE CHOOSE p \in cuts : Cardinality({q \in cuts : q < p}) = k - 1
    IN  [k \in 1..(n + 1) |-> SubSeq(s, cut(k - 1) + 1, cut(k) - 1)]

\* The operator `token in line` on strings.
Contains(line, token) ==
    \E i \in 1..(Len(line) + 1 - Len(token)) :
        SubSeq(line, i, i + Len(token) - 1) = token

\* str(n) for a natural number, as "{}".format(n) renders it.
RECURSIVE str(_)
str(n) ==
    IF n < 10 THEN CharAt("0123456789", n + 1)
    ELSE str(n \div 10) \o CharAt("0123456789", (n % 10) + 1)

\* pattern.format(*args) for a pattern whose only replacement fields are
\* "{}": the k-th "{}" is replaced by args[k], inserted verbatim.
RECURSIVE FormatFrom(_, _, _, _)
FormatFrom(pattern, holes, args, k) ==
    LET n      == Cardinality(holes)
        hole(j) == IF j = 0 THEN -1
                   ELSE IF j = n + 1 THEN Len(pattern) + 1
                   ELSE CHOOSE p \in holes : Cardinality({q \in holes : q < p}) = j - 1
        piece  == SubSeq(pattern, hole(k - 1) + 2, hole(k) - 1)
    IN  IF k = n + 1 THEN piece
        ELSE piece \o args[k] \o FormatFrom(pattern, holes, args, k + 1)

format_str(pattern, args) ==
    FormatFrom(pattern,
               {i \in 1..(Len(pattern) - 1) : SubSeq(pattern, i, i + 1) = "{}"},
               args, 1)

\* str.lower() on the ASCII letters.
RECURSIVE lower(_)
lower(s) ==
    LET U == "ABCDEFGHIJKLMNOPQRSTUVWXYZ"
        L == "abcdefghijklmnopqrstuvwxyz"
        c == CharAt(s, 1)
        at == {i \in 1..26 : CharAt(U, i) = c}
    IN  IF s = "" THEN ""
        ELSE (IF at = {} THEN c ELSE CharAt(L, CHOOSE i \in at : TRUE))
             \o lower(SubSeq(s, 2, Len(s)))

\* The slice lines[k:] for 0 <= k (k counts from zero, as in Python).
SliceFrom(lines, k) == SubSeq(lines, k + 1, Len(lines))

\* The slice lines[:k] for 0 <= k.
SliceTo(lines, k) == SubSeq(lines, 1, k)

-----------------------------------------------------------------------------
(* READMESection and TableEntry.                                           *)

\* READMESection.list(): the values of the enumeration, in declaration order.
READMESection_list == <<"models", "applied">>

\* READMESection(value): the member whose value is exactly `value`;
\* "ValueError" stands for the exception the Enum lookup raises otherwise.
READMESection(value) ==
    IF \E i \in DOMAIN READMESection_list : READMESection_list[i] = value
    THEN value
    ELSE "ValueError"

\* READMESection.from_value(value): the case-insensitive lookup.  No line of
\* the script calls it.
READMESection_from_value(value) ==
    IF READMESection(lower(value)) = "ValueError"
    THEN "Exception"
    ELSE READMESection(lower(value))

NoEntry ==
    [display_name |-> "", notebook_name |-> "", roboflow_blogpost_path |-> "",
     youtube_video_path |-> "", github_repository_path |-> "",
     arxiv_index |-> "", readme_section |-> ""]

\* from_csv_line rejecting only lines of fewer than seven fields.
from_csv_line_at_least_seven(csv_line) ==
    LET raw        == split(csv_line, ",")
        csv_fields == [i \in DOMAIN raw |-> strip(raw[i])]
    IN  IF Len(csv_fields) < 7
        THEN [error |-> "MalformedRecord", entry |-> NoEntry]
        ELSE IF READMESection(csv_fields[7]) = "ValueError"
        THEN [error |-> "UnknownSection", entry |-> NoEntry]
        ELSE [error |-> "none",
              entry |-> [display_name           |-> csv_fields[1],
                         notebook_name          |-> csv_fields[2],
                         roboflow_blogpost_path |-> csv_fields[3],
                         youtube_video_path     |-> csv_fields[4],
                         github_repository_path |-> csv_fields[5],
                         arxiv_index            |-> csv_fields[6],
                         readme_section         |-> READMESection(csv_fields[7])]]

\* TableEntry.from_csv_line(csv_line): the entry, or the exception raised.
from_csv_line(csv_line) ==
    LET raw        == split(csv_line, ",")
        csv_fields == [i \in DOMAIN raw |-> strip(raw[i])]
    IN  IF Len(csv_fields) # 7
        THEN [error |-> "MalformedRecord", entry |-> NoEntry]
        ELSE IF READMESection(csv_fields[7]) = "ValueError"
        THEN [error |-> "UnknownSection", entry |-> NoEntry]
        ELSE [error |-> "none",
              entry |-> [display_name           |-> csv_fields[1],
                         notebook_name          |-> csv_fields[2],
                         roboflow_blogpost_path |-> csv_fields[3],
                         youtube_video_path     |-> csv_fields[4],
                         github_repository_path |-> csv_fields[5],
                         arxiv_index            |-> csv_fields[6],
                         readme_section         |-> READMESection(csv_fields[7])]]

\* notebook_link with the notebook file and the display name exchanged.
notebook_link_names_exchanged(self) ==
    format_str(NOTEBOOK_LINK_PATTERN,
               <<self.notebook_name, NOTEBOOKS_ROOT_PATH, self.display_name>>)

\* The local notebook_link of TableEntry.format.
notebook_link(self) ==
    format_str(NOTEBOOK_LINK_PATTERN,
               <<self.display_name, NOTEBOOKS_ROOT_PATH, self.notebook_name>>)

\* arxiv_badge with the identifier filled in once and the notebook file in
\* the second place.
arxiv_badge_one_identifier(self) ==
    IF self.arxiv_index # ""
    THEN format_str(ARXIV_BADGE_PATTERN, <<self.arxiv_index, self.notebook_name>>)
    ELSE ""

\* The local arxiv_badge of TableEntry.format.
arxiv_badge(self) ==
    IF self.arxiv_index # ""
    THEN format_str(ARXIV_BADGE_PATTERN, <<self.arxiv_index, self.arxiv_index>>)
    ELSE ""

\* optional_badge without the test for an empty field.
optional_badge_unconditional(pattern, field) == format_str(pattern, <<field>>)

\* The locals roboflow_badge, youtube_badge and github_badge of
\* TableEntry.format: the pattern filled with the field, "" for an empty field.
optional_badge(pattern, field) ==
    IF field # "" THEN format_str(pattern, <<field>>) ELSE ""

\* TableEntry.format(self): the Markdown row of the entry.
format(self) ==
    LET open_in_colab_badge  == format_str(OPEN_IN_COLAB_BADGE_PATTERN,
                                    <<NOTEBOOKS_COLAB_ROOT_PATH, self.notebook_name>>)
        open_in_kaggle_badge == format_str(OPEN_IN_KAGGLE_BADGE_PATTERN,
                                    <<NOTEBOOKS_ROOT_PATH, self.notebook_name>>)
        roboflow_badge == optional_badge(ROBOFLOW_BADGE_PATTERN, self.roboflow_blogpost_path)
        youtube_badge  == optional_badge(YOUTUBE_BADGE_PATTERN, self.youtube_video_path)
        github_badge   == optional_badge(GITHUB_BADGE_PATTERN, self.github_repository_path)
    IN  "| " \o notebook_link(self) \o " | " \o open_in_colab_badge \o " "
             \o open_in_kaggle_badge \o " | " \o roboflow_badge \o " "
             \o youtube_badge \o " | " \o github_badge \o " "
             \o arxiv_badge(self) \o "|"

-----------------------------------------------------------------------------
(* The module-level functions.                                             *)

\* read_lines_from_file(path): the lines of the file, each rstrip()ped.
read_lines_from_file(file) == [i \in DOMAIN file |-> rstrip(file[i])]

\* save_lines_to_file(path, lines): the file holds one line per element.
save_lines_to_file(lines) == lines

\* parse_csv_lines(csv_lines): the entries in line order, or the exception
\* of the first line that fails.
parse_csv_lines(lines) ==
    LET parsed == [i \in DOMAIN lines |-> from_csv_line(lines[i])]
        bad    == {i \in DOMAIN lines : parsed[i].error # "none"}
    IN  IF bad = {}
        THEN [error |-> "none", entries |-> [i \in DOMAIN lines |-> parsed[i].entry]]
        ELSE [error |-> parsed[Min(bad)].error, entries |-> <<>>]

\* search_lines_with_token(lines, token): the zero-based indexes of the lines
\* that contain the token, in increasing order.
RECURSIVE search_from(_, _, _)
search_from(lines, token, line_index) ==
    IF line_index >= Len(lines) THEN <<>>
    ELSE (IF Contains(lines[line_index + 1], token) THEN <<line_index>> ELSE <<>>)
         \o search_from(lines, token, line_index + 1)

search_lines_with_token(lines, token) == search_from(lines, token, 0)

\* inject_markdown_table_into_readme with the first slice ending before the
\* opening marker line.
inject_without_opening_marker(lines, table) ==
    LET lines_with_token_indexes ==
            search_lines_with_token(lines, AUTOGENERATED_NOTEBOOKS_TABLE_TOKEN)
        table_start_line_index == lines_with_token_indexes[1]
        table_end_line_index   == lines_with_token_indexes[2]
    IN  IF Len(lines_with_token_indexes) # 2
        THEN [error |-> "MarkerCount", lines |-> <<>>]
        ELSE [error |-> "none",
              lines |-> SliceTo(lines, table_start_line_index) \o table
                        \o SliceFrom(lines, table_end_line_index)]

\* inject_markdown_table_into_readme with the last slice starting after the
\* closing marker line.
inject_without_closing_marker(lines, table) ==
    LET lines_with_token_indexes ==
            search_lines_with_token(lines, AUTOGENERATED_NOTEBOOKS_TABLE_TOKEN)
        table_start_line_index == lines_with_token_indexes[1]
        table_end_line_index   == lines_with_token_indexes[2]
    IN  IF Len(lines_with_token_indexes) # 2
        THEN [error |-> "MarkerCount", lines |-> <<>>]
        ELSE [error |-> "none",
              lines |-> SliceTo(lines, table_start_line_index + 1) \o table
                        \o SliceFrom(lines, table_end_line_index + 1)]

\* inject_markdown_table_into_readme rejecting only fewer than two token lines.
inject_with_at_least_two_markers(lines, table) ==
    LET lines_with_token_indexes ==
            search_lines_with_token(lines, AUTOGENERATED_NOTEBOOKS_TABLE_TOKEN)
        table_start_line_index == lines_with_token_indexes[1]
        table_end_line_index   == lines_with_token_indexes[2]
    IN  IF Len(lines_with_token_indexes) < 2
        THEN [error |-> "MarkerCount", lines |-> <<>>]
        ELSE [error |-> "none",
              lines |-> SliceTo(lines, table_start_line_index + 1) \o table
                        \o SliceFrom(lines, table_end_line_index)]

\* inject_markdown_table_into_readme(readme_lines, table_lines): the spliced
\* lines, or the exception raised on a wrong number of token lines.
inject_markdown_table_into_readme(lines, table) ==
    LET lines_with_token_indexes ==
            search_lines_with_token(lines, AUTOGENERATED_NOTEBOOKS_TABLE_TOKEN)
        table_start_line_index == lines_with_token_indexes[1]
        table_end_line_index   == lines_with_token_indexes[2]
    IN  IF Len(lines_with_token_indexes) # 2
        THEN [error |-> "MarkerCount", lines |-> <<>>]
        ELSE [error |-> "none",
              lines |-> SliceTo(lines, table_start_line_index + 1) \o table
                        \o SliceFrom(lines, table_end_line_index)]

\* Line 137 without the slice: the first line is kept.
csv_lines_with_first_line(file) == read_lines_from_file(file)

\* Line 137: the data lines are the lines of the data file after the first.
csv_lines_of(file) == SliceFrom(read_lines_from_file(file), 1)

\* Lines 140-145 and 146-151: the rows of the entries of one section, in
\* the order of table_entries.
RECURSIVE section_lines(_, _)
section_lines(entries, section) ==
    IF entries = <<>> THEN <<>>
    ELSE (IF Head(entries).readme_section = section
          THEN <<format(Head(entries))>> ELSE <<>>)
         \o section_lines(Tail(entries), section)

\* Lines 152-154 with the two counts exchanged.
table_lines_counts_exchanged(models, applied) ==
    WARNING_HEADER
    \o <<format_str(MODELS_SECTION_HEADER, <<str(Len(applied))>>)>> \o TABLE_HEADER \o models
    \o <<format_str(APPLIED_SECTION_HEADER, <<str(Len(models))>>)>> \o TABLE_HEADER \o applied

\* Lines 152-154: the rendered table.
table_lines_of(models, applied) ==
    WARNING_HEADER
    \o <<format_str(MODELS_SECTION_HEADER, <<str(Len(models))>>)>> \o TABLE_HEADER \o models
    \o <<format_str(APPLIED_SECTION_HEADER, <<str(Len(applied))>>)>> \o TABLE_HEADER \o applied

-----------------------------------------------------------------------------
(* Input files: the lines the data file and the README are drawn from.     *)

MaxRuns == 2          \* invocations of the script on the same two files

MaxCsvLines == 2      \* data lines after the first line (Spec)

MaxReadmeLines == 4   \* lines of the README (SpecSplice)

MaxTableLines == 3    \* data lines after the header (SpecTable)

MaxEntryLines == 1    \* data lines after the header (SpecEntry)

SeqsUpTo(S, n) == UNION {[1..k -> S] : k \in 0..n}

CSV_HEADER == "display_name, notebook_name, roboflow_blogpost_path, youtube_video_path, github_repository_path, arxiv_index, readme_section"

CSV_MODELS == "YOLOv7, train-yolov7.ipynb, https://blog.roboflow.com/yolov7, https://youtu.be/5nsmXLyDaU4, https://github.com/WongKinYiu/yolov7, 2207.02696, models"

CSV_APPLIED == "Count Vehicles,count-vehicles.ipynb, ,\t,,,applied  "

CSV_SIX_FIELDS == "Grounding DINO, grounding-dino.ipynb, , , , models"

CSV_EIGHT_FIELDS == "Football, AI, football-ai.ipynb, , , , , applied"

CSV_BLANK == ""

CSV_CAPITAL_MODELS == "SAM, segment-anything.ipynb, , , https://github.com/facebookresearch/segment-anything, 2304.02643, Models"

CSV_UPPER_APPLIED == "Vehicle Speed, vehicle-speed.ipynb, , , , , APPLIED"

CSV_UNKNOWN_SECTION == "DINOv2, dinov2.ipynb, , , , 2304.07193, skills"

CSV_TOKEN_NAME == "<!--- AUTOGENERATED-NOTEBOOKS-TABLE -->, table.ipynb, , , , , models"

\* Two lines whose names hold the text that joins name and path in a link.
CSV_LINK_IN_PATH == "RT-DETR, a.ipynb](https://github.com/roboflow-ai/notebooks/blob/main/notebooks/b.ipynb, , , , , models"

CSV_LINK_IN_NAME == "RT-DETR](https://github.com/roboflow-ai/notebooks/blob/main/notebooks/a.ipynb, b.ipynb, , , , , applied"

README_TEXT == "# notebooks  "

README_TOKEN == "<!--- AUTOGENERATED-NOTEBOOKS-TABLE -->"

README_TOKEN_INSIDE == "see <!--- AUTOGENERATED-NOTEBOOKS-TABLE --> (end)\t"

README_LINES == {README_TEXT, README_TOKEN, README_TOKEN_INSIDE}

README_TWO_TOKENS ==
    <<README_TEXT, README_TOKEN, "| old row |", README_TOKEN_INSIDE, "## license">>

README_NO_TOKEN == <<README_TEXT, "## license">>

READMES == {README_TWO_TOKENS, README_NO_TOKEN}

FIRST_LINES == {CSV_HEADER, CSV_MODELS, CSV_SIX_FIELDS}

CSV_LINES ==
    {CSV_MODELS, CSV_APPLIED, CSV_SIX_FIELDS, CSV_EIGHT_FIELDS, CSV_BLANK,
     CSV_CAPITAL_MODELS, CSV_UPPER_APPLIED, CSV_UNKNOWN_SECTION}

SPLICE_DATA_FILES ==
    {<<>>, <<CSV_HEADER, CSV_MODELS, CSV_APPLIED>>, <<CSV_HEADER, CSV_SIX_FIELDS>>,
     <<CSV_HEADER, CSV_TOKEN_NAME>>}

TABLE_LINES == {CSV_MODELS, CSV_APPLIED, CSV_LINK_IN_PATH, CSV_LINK_IN_NAME}

\* One line for every combination of blank and filled optional fields (a
\* blank field is empty or holds only whitespace), and one whose arXiv
\* identifier is a single digit.
ENTRY_LINES ==
    {"YOLOv8 , yolov8.ipynb," \o blog \o "," \o video \o "," \o repo \o "," \o arxiv \o ", models" :
        blog  \in {" ", " https://blog.roboflow.com/yolov8"},
        video \in {"", " https://youtu.be/wuZtUMEiKWY"},
        repo  \in {"\t ", " https://github.com/ultralytics/ultralytics"},
        arxiv \in {"", " 2305.09972"}}
    \cup {"OWL-ViT, owl-vit.ipynb, , , , 1, applied"}

\* A data file: no line at all, or a first line followed by data lines.
DataFiles(first, lines, n) ==
    {<<>>} \cup {<<f>> \o s : f \in first, s \in SeqsUpTo(lines, n)}

-----------------------------------------------------------------------------
(* The __main__ block, one action per statement.                           *)

Start(data, readme) ==
    /\ data_file = data
    /\ readme_file = readme
    /\ pc = "read_data"
    /\ csv_lines = <<>>
    /\ readme_lines = <<>>
    /\ table_entries = <<>>
    /\ models_lines = <<>>
    /\ APPLIED_lines = <<>>
    /\ table_lines = <<>>
    /\ error = "none"
    /\ run = 1
    /\ readme_before = readme
    /\ prev_written = <<>>

Init ==
    \E data \in DataFiles(FIRST_LINES, CSV_LINES, MaxCsvLines), readme \in READMES :
        Start(data, readme)

InitSplice ==
    \E data \in SPLICE_DATA_FILES, readme \in SeqsUpTo(README_LINES, MaxReadmeLines) :
        Start(data, readme)

InitTable ==
    \E data \in DataFiles({CSV_HEADER}, TABLE_LINES, MaxTableLines), readme \in READMES :
        Start(data, readme)

InitEntry ==
    \E data \in DataFiles({CSV_HEADER}, ENTRY_LINES, MaxEntryLines), readme \in READMES :
        Start(data, readme)

\* Line 137.
ReadData ==
    /\ pc = "read_data"
    /\ csv_lines' = csv_lines_of(data_file)
    /\ pc' = "read_readme"
    /\ UNCHANGED <<data_file, readme_file, readme_lines, table_entries, models_lines,
                   APPLIED_lines, table_lines, error, run, readme_before, prev_written>>

\* Line 138.
ReadReadme ==
    /\ pc = "read_readme"
    /\ readme_lines' = read_lines_from_file(readme_file)
    /\ pc' = "parse"
    /\ UNCHANGED <<data_file, readme_file, csv_lines, table_entries, models_lines,
                   APPLIED_lines, table_lines, error, run, readme_before, prev_written>>

\* Line 139; an exception of parse_csv_lines ends the run.
ParseCsv ==
    /\ pc = "parse"
    /\ LET parsed == parse_csv_lines(csv_lines)
       IN  IF parsed.error = "none"
           THEN /\ table_entries' = parsed.entries
                /\ pc' = "models"
                /\ error' = error
           ELSE /\ table_entries' = table_entries
                /\ pc' = "failed"
                /\ error' = parsed.error
    /\ UNCHANGED <<data_file, readme_file, csv_lines, readme_lines, models_lines,
                   APPLIED_lines, table_lines, run, readme_before, prev_written>>

\* Lines 140-145.
FormatModels ==
    /\ pc = "models"
    /\ models_lines' = section_lines(table_entries, READMESection("models"))
    /\ pc' = "applied"
    /\ UNCHANGED <<data_file, readme_file, csv_lines, readme_lines, table_entries,
                   APPLIED_lines, table_lines, error, run, readme_before, prev_written>>

\* Lines 146-151.
FormatApplied ==
    /\ pc = "applied"
    /\ APPLIED_lines' = section_lines(table_entries, READMESection("applied"))
    /\ pc' = "table"
    /\ UNCHANGED <<data_file, readme_file, csv_lines, readme_lines, table_entries,
                   models_lines, table_lines, error, run, readme_before, prev_written>>

\* Lines 152-154.
BuildTable ==
    /\ pc = "table"
    /\ table_lines' = table_lines_of(models_lines, APPLIED_lines)
    /\ pc' = "inject"
    /\ UNCHANGED <<data_file, readme_file, csv_lines, readme_lines, table_entries,
                   models_lines, APPLIED_lines, error, run, readme_before, prev_written>>

\* Line 155; an exception of inject_markdown_table_into_readme ends the run.
Inject ==
    /\ pc = "inject"
    /\ LET injected == inject_markdown_table_into_readme(readme_lines, table_lines)
       IN  IF injected.error = "none"
           THEN /\ readme_lines' = injected.lines
                /\ pc' = "save"
                /\ error' = error
           ELSE /\ readme_lines' = readme_lines
                /\ pc' = "failed"
                /\ error' = injected.error
    /\ UNCHANGED <<data_file, readme_file, csv_lines, table_entries, models_lines,
                   APPLIED_lines, table_lines, run, readme_before, prev_written>>

\* Line 156.
Save ==
    /\ pc = "save"
    /\ readme_file' = save_lines_to_file(readme_lines)
    /\ pc' = "done"
    /\ UNCHANGED <<data_file, csv_lines, readme_lines, table_entries, models_lines,
                   APPLIED_lines, table_lines, error, run, readme_before, prev_written>>

\* The script is invoked again on the files the previous run left.
Rerun ==
    /\ pc \in {"done", "failed"}
    /\ run < MaxRuns
    /\ run' = run + 1
    /\ readme_before' = readme_file
    /\ prev_written' = IF pc = "done" THEN <<readme_file>> ELSE <<>>
    /\ pc' = "read_data"
    /\ csv_lines' = <<>>
    /\ readme_lines' = <<>>
    /\ table_entries' = <<>>
    /\ models_lines' = <<>>
    /\ APPLIED_lines' = <<>>
    /\ table_lines' = <<>>
    /\ error' = "none"
    /\ UNCHANGED <<data_file, readme_file>>

Next ==
    \/ ReadData
    \/ ReadReadme
    \/ ParseCsv
    \/ FormatModels
    \/ FormatApplied
    \/ BuildTable
    \/ Inject
    \/ Save
    \/ Rerun

Spec == Init /\ [][Next]_vars

SpecSplice == InitSplice /\ [][Next]_vars

SpecTable == InitTable /\ [][Next]_vars

SpecEntry == InitEntry /\ [][Next]_vars

-----------------------------------------------------------------------------
(* Properties.                                                             *)

\* The number of lines that contain the sentinel token.
TokenCount(lines) ==
    Cardinality({i \in DOMAIN lines : Contains(lines[i], AUTOGENERATED_NOTEBOOKS_TABLE_TOKEN)})

\* The lines of the README as the current run read them.
ReadmeRead == [i \in DOMAIN readme_before |-> rstrip(readme_before[i])]

\* The indexes (from 1) of the lines of ReadmeRead that contain the token.
TokenLines ==
    {i \in DOMAIN ReadmeRead : Contains(ReadmeRead[i], AUTOGENERATED_NOTEBOOKS_TABLE_TOKEN)}

Finished == pc \in {"done", "failed"}

\* C1: when exactly two lines of the document contain the sentinel token, at
\* indexes i < j, the splice succeeds and returns exactly the lines up to and
\* including line i, then all the table lines, then the lines from line j to
\* the end; a marker-count failure happens only for another number of lines.
C1_SpliceKeepsOutsideLines ==
    /\ (pc = "failed" /\ error = "MarkerCount") => Cardinality(TokenLines) # 2
    /\ pc = "save" =>
         /\ Cardinality(TokenLines) = 2
         /\ LET i == Min(TokenLines)
                j == Max(TokenLines)
                n == Len(table_lines)
            IN  /\ i < j
                /\ Len(readme_lines) = i + n + (Len(ReadmeRead) - j + 1)
                /\ \A k \in 1..i : readme_lines[k] = ReadmeRead[k]
                /\ \A k \in 1..n : readme_lines[i + k] = table_lines[k]
                /\ \A k \in j..Len(ReadmeRead) :
                       readme_lines[i + n + (k - j) + 1] = ReadmeRead[k]

\* C1 witness: a splice of a document with a line before the opening marker,
\* an old line between the markers, and a marker that is only part of its line.
C1_Witness ==
    /\ pc = "save"
    /\ Min(TokenLines) > 1
    /\ Max(TokenLines) > Min(TokenLines) + 1
    /\ \E i \in TokenLines : ReadmeRead[i] # AUTOGENERATED_NOTEBOOKS_TABLE_TOKEN
    /\ Len(table_lines) > 9

\* C2: a document whose number of token lines is not two is never written:
\* the run ends in failure, the save step is not reached and the file keeps
\* its content; the failure is the marker-count error in every run that gets
\* as far as the splice (every data line parsed).
C2_WrongMarkerCountFails ==
    (pc \in {"save", "done", "failed"} /\ TokenCount(readme_before) # 2) =>
        /\ pc = "failed"
        /\ readme_file = readme_before
        /\ error \in {"MarkerCount", "MalformedRecord", "UnknownSection"}
        /\ parse_csv_lines(csv_lines).error = "none" => error = "MarkerCount"

\* C2 witness: a run on a document with three token lines has failed with the
\* marker-count error after rendering a table with rows.
C2_Witness ==
    /\ pc = "failed"
    /\ error = "MarkerCount"
    /\ TokenCount(readme_before) = 3
    /\ Len(table_entries) > 0
    /\ readme_file = readme_before

\* C3 (as claimed): after a successful run the written document has exactly
\* two token lines, and a run that follows a successful run succeeds and
\* writes the same document.
C3_SecondRunIdentical ==
    /\ pc = "done" => TokenCount(readme_file) = 2
    /\ (Finished /\ prev_written # <<>>) =>
           (pc = "done" /\ readme_file = prev_written[1])

\* No line of the data file contains the sentinel token.
NoTokenInData ==
    \A i \in DOMAIN data_file :
        ~Contains(data_file[i], AUTOGENERATED_NOTEBOOKS_TABLE_TOKEN)

\* C3 (amended): when no line of the data file contains the sentinel token,
\* the document a successful run writes has exactly two token lines, the
\* closing one being the closing marker line as read, and a run that follows
\* a successful run succeeds and writes the same document.
C3_SecondRunIdenticalWithoutTokenInData ==
    (Finished /\ NoTokenInData) =>
        /\ pc = "done" =>
             /\ TokenCount(readme_file) = 2
             /\ readme_file[Len(readme_file) - (Len(ReadmeRead) - Max(TokenLines))]
                    = ReadmeRead[Max(TokenLines)]
        /\ prev_written # <<>> => (pc = "done" /\ readme_file = prev_written[1])

\* C3 witness: a second run has rewritten the document the first run wrote,
\* rows included.
C3_Witness ==
    /\ pc = "done"
    /\ run = 2
    /\ NoTokenInData
    /\ Len(table_entries) > 0
    /\ prev_written = <<readme_file>>
    /\ TokenCount(readme_file) = 2

\* The data lines of the file: its lines after the first, by position.
DataLineIndexes == {i \in DOMAIN data_file : i >= 2}

\* The data lines that do not split on "," into exactly seven fields.
WrongFieldCount == {i \in DataLineIndexes : Len(split(data_file[i], ",")) # 7}

\* What from_csv_line makes of line i of the data file, as the run read it.
ParsedLine(i) == from_csv_line(rstrip(data_file[i]))

\* C4: when a data line does not split into exactly seven fields, the run
\* fails and writes nothing: it never reaches the save step and the document
\* keeps its content, whatever its markers; the failure is the
\* malformed-record error whenever the data lines before the first such line
\* were valid.
C4_WrongFieldCountFails ==
    (pc \in {"models", "applied", "table", "inject", "save", "done", "failed"}
        /\ WrongFieldCount # {}) =>
        /\ pc = "failed"
        /\ readme_file = readme_before
        /\ error \in {"MalformedRecord", "UnknownSection"}
        /\ (\A j \in DataLineIndexes :
               j < Min(WrongFieldCount) => ParsedLine(j).error = "none")
           => error = "MalformedRecord"

\* C4 witness: a run on a document with two valid markers has failed with the
\* malformed-record error on an eight-field line that follows a valid line.
C4_Witness ==
    /\ pc = "failed"
    /\ error = "MalformedRecord"
    /\ Len(data_file) = 3
    /\ ParsedLine(2).error = "none"
    /\ Len(split(data_file[3], ",")) = 8
    /\ TokenCount(readme_before) = 2
    /\ readme_file = readme_before

\* The section tag of a line of seven fields: the last field, trimmed.
SectionTag(line) == strip(split(line, ",")[7])

\* C5 (as claimed): from_csv_line accepts every seven-field data line whose
\* tag is "models" or "applied" in any letter case, with the section its
\* lower-cased tag names, and fails with the unknown-section error on every
\* other tag; a run that met that failure has ended without writing.
C5_SectionIsCaseInsensitive ==
    pc \in {"models", "failed"} =>
        \A i \in DataLineIndexes :
            Len(split(data_file[i], ",")) = 7 =>
                LET section == READMESection_from_value(SectionTag(data_file[i]))
                IN  /\ section = "Exception" <=> ParsedLine(i).error = "UnknownSection"
                    /\ section # "Exception" =>
                           /\ ParsedLine(i).error = "none"
                           /\ ParsedLine(i).entry.readme_section = section
                    /\ ParsedLine(i).error = "UnknownSection" =>
                           (pc = "failed" /\ readme_file = readme_before)

\* The table of a data file without data lines.
EmptyTable ==
    WARNING_HEADER
    \o <<"## Model Experiments (0 notebooks)">> \o TABLE_HEADER
    \o <<"## Applied computer vision in real world scenarios (0 notebooks)">> \o TABLE_HEADER

\* C10: the first line of the data file is never parsed.  The entries are
\* those of the lines after the first, one per line and in order, and a parse
\* failure is the failure of a line after the first; a file of at most one
\* line never fails to parse, renders both sections with count 0 and no
\* rows, and the run succeeds on a document with two token lines.
C10_FirstLineDiscarded ==
    /\ pc \in {"models", "applied", "table", "inject", "save", "done"} =>
         /\ Len(table_entries) = Cardinality(DataLineIndexes)
         /\ \A i \in DataLineIndexes : table_entries[i - 1] = ParsedLine(i).entry
    /\ (pc = "failed" /\ error # "MarkerCount") =>
         \E i \in DataLineIndexes :
            /\ ParsedLine(i).error = error
            /\ \A j \in DataLineIndexes : j < i => ParsedLine(j).error = "none"
    /\ (Len(data_file) <= 1 /\ pc \in {"inject", "save", "done", "failed"}) =>
         /\ table_lines = EmptyTable
         /\ pc = "failed" => (error = "MarkerCount" /\ TokenCount(readme_before) # 2)
         /\ pc = "done" =>
                readme_file = SubSeq(ReadmeRead, 1, Min(TokenLines)) \o EmptyTable
                              \o SubSeq(ReadmeRead, Max(TokenLines), Len(ReadmeRead))

\* C10 witness: a run whose data file is one malformed line has succeeded.
C10_Witness ==
    /\ pc = "done"
    /\ Len(data_file) = 1
    /\ from_csv_line(data_file[1]).error = "MalformedRecord"
    /\ table_lines = EmptyTable
    /\ readme_file # readme_before

\* The table was rendered in the current run.
TableBuilt ==
    pc \in {"inject", "save", "done"} \/ (pc = "failed" /\ error = "MarkerCount")

\* The positions in table_entries of the entries of a section.
SectionEntries(section) ==
    {i \in DOMAIN table_entries : table_entries[i].readme_section = section}

\* The k-th smallest element of a set of numbers.
Nth(S, k) == CHOOSE i \in S : Cardinality({j \in S : j < i}) = k - 1

\* The row rendered for entry i: rows are kept per section, in entry order.
RowOf(i) ==
    LET section == table_entries[i].readme_section
        k == Cardinality({j \in SectionEntries(section) : j <= i})
    IN  IF section = "models" THEN models_lines[k] ELSE APPLIED_lines[k]

\* C6: the table is the 4-line banner, the models header with the number of
\* models entries, the 2-line table header, the models rows, the applied
\* header with the number of applied entries, the 2-line table header, the
\* applied rows; the rows of a section are those of its entries in the order
\* of the data file, and every entry has exactly one row.
C6_TableLayout ==
    TableBuilt =>
        LET M == SectionEntries("models")
            A == SectionEntries("applied")
            m == Cardinality(M)
            a == Cardinality(A)
        IN  /\ M \cup A = DOMAIN table_entries
            /\ Len(table_entries) = Max({0, Len(data_file) - 1})
            /\ Len(table_lines) = 4 + 1 + 2 + m + 1 + 2 + a
            /\ SubSeq(table_lines, 1, 4) = WARNING_HEADER
            /\ table_lines[5] = "## Model Experiments (" \o str(m) \o " notebooks)"
            /\ SubSeq(table_lines, 6, 7) = TABLE_HEADER
            /\ \A k \in 1..m : table_lines[7 + k] = format(table_entries[Nth(M, k)])
            /\ table_lines[8 + m] =
                   "## Applied computer vision in real world scenarios (" \o str(a) \o " notebooks)"
            /\ SubSeq(table_lines, 9 + m, 10 + m) = TABLE_HEADER
            /\ \A k \in 1..a : table_lines[10 + m + k] = format(table_entries[Nth(A, k)])

\* C6 witness: a table of an applied line followed by two different models
\* lines: the models rows come first, in file order, with counts 2 and 1.
C6_Witness ==
    /\ pc = "done"
    /\ Len(table_entries) = 3
    /\ table_entries[1].readme_section = "applied"
    /\ table_entries[2].readme_section = "models"
    /\ table_entries[3].readme_section = "models"
    /\ table_entries[2] # table_entries[3]
    /\ table_lines[5] = "## Model Experiments (2 notebooks)"
    /\ table_lines[8] = format(table_entries[2])
    /\ table_lines[9] = format(table_entries[3])
    /\ table_lines[10] = "## Applied computer vision in real world scenarios (1 notebooks)"
    /\ table_lines[13] = format(table_entries[1])

\* The cells of a row: the texts its pipes delimit, without the empty texts
\* before the first pipe and after the last.
Cells(row) ==
    LET parts == split(row, "|")
    IN  SubSeq(parts, 2, Len(parts) - 1)

\* A field of the data file that is empty or holds only whitespace.
IsBlank(field) == \A i \in 1..Len(field) : IsSpace(CharAt(field, i))

\* The badge of an optional field: nothing for a blank field, else the link
\* that starts with `open` and ends after the trimmed field.
Badge(open, field) ==
    IF IsBlank(field) THEN "" ELSE open \o strip(field) \o ")"

\* C7: whichever optional fields of a data line are blank (empty or only
\* whitespace), the badge of each blank field is the empty string and the
\* row has exactly 4 pipe-delimited cells: the third holds the blog and the
\* video badge, the fourth the repository and the arXiv badge.
C7_BlankBadgesKeepFourCells ==
    pc = "table" =>
        \A i \in DOMAIN table_entries :
            LET field == split(data_file[i + 1], ",")
                cell  == Cells(RowOf(i))
            IN  /\ Len(cell) = 4
                /\ cell[3] = " " \o Badge("[![Roboflow](https://raw.githubusercontent.com/roboflow-ai/notebooks/main/assets/badges/roboflow-blogpost.svg)](", field[3])
                             \o " " \o Badge("[![YouTube](https://badges.aleen42.com/src/youtube.svg)](", field[4])
                             \o " "
                /\ cell[4] = " " \o Badge("[![GitHub](https://badges.aleen42.com/src/github.svg)](", field[5])
                             \o " " \o (IF IsBlank(field[6]) THEN "" ELSE arxiv_badge(table_entries[i]))

\* C7 witness: the row of a line whose blog field is a space and whose
\* repository field is a tab and a space, while video and arXiv are filled.
C7_Witness ==
    /\ pc = "table"
    /\ \E i \in DOMAIN table_entries :
          LET field == split(data_file[i + 1], ",")
          IN  /\ field[3] = " "
              /\ field[5] = "\t "
              /\ table_entries[i].youtube_video_path # ""
              /\ table_entries[i].arxiv_index # ""
              /\ Len(Cells(RowOf(i))) = 4

\* str.count: the number of non-overlapping occurrences of sub in s.
RECURSIVE CountFrom(_, _, _)
CountFrom(s, sub, i) ==
    IF i + Len(sub) - 1 > Len(s) THEN 0
    ELSE IF SubSeq(s, i, i + Len(sub) - 1) = sub
         THEN 1 + CountFrom(s, sub, i + Len(sub))
         ELSE CountFrom(s, sub, i + 1)

Count(s, sub) == CountFrom(s, sub, 1)

\* The entries that have an arXiv identifier.
WithArxiv == {i \in DOMAIN table_entries : table_entries[i].arxiv_index # ""}

\* C8 (as claimed): the arXiv badge of an entry with an identifier contains
\* the identifier exactly twice.
C8_IdentifierExactlyTwice ==
    pc = "table" =>
        \A i \in WithArxiv :
            Count(arxiv_badge(table_entries[i]), table_entries[i].arxiv_index) = 2

\* C8 (amended): the arXiv badge is the fixed text with the identifier at
\* two places, after "arXiv-" in the image URL and after "abs/" in the link,
\* so it contains the identifier at least twice; the row ends with the badge.
C8_IdentifierAtTwoPlaces ==
    pc = "table" =>
        \A i \in WithArxiv :
            LET id    == table_entries[i].arxiv_index
                badge == "[![arXiv](https://img.shields.io/badge/arXiv-" \o id
                         \o "-b31b1b.svg)](https://arxiv.org/abs/" \o id \o ")"
                row   == RowOf(i)
            IN  /\ arxiv_badge(table_entries[i]) = badge
                /\ Count(badge, id) >= 2
                /\ SubSeq(row, Len(row) - Len(badge), Len(row)) = badge \o "|"

\* C8 witness: a rendered entry whose badge holds its identifier exactly twice.
C8_Witness ==
    /\ pc = "table"
    /\ \E i \in WithArxiv :
          /\ table_entries[i].arxiv_index = "2305.09972"
          /\ Count(arxiv_badge(table_entries[i]), "2305.09972") = 2
          /\ Contains(RowOf(i), arxiv_badge(table_entries[i]))

\* The display link of a row: its first cell without the spaces around it.
LinkOf(i) ==
    LET cell == Cells(RowOf(i))[1]
    IN  SubSeq(cell, 2, Len(cell) - 1)

\* The text between the name and the notebook file in a display link.
LinkJoint == "](" \o NOTEBOOKS_ROOT_PATH \o "/"

\* Re-parsing a display link: the name is the text between the opening
\* bracket and the first joint, the notebook file the text after that joint
\* up to the closing parenthesis.
ParseLink(link) ==
    LET joints == {p \in 1..(Len(link) + 1 - Len(LinkJoint)) :
                      SubSeq(link, p, p + Len(LinkJoint) - 1) = LinkJoint}
        p == Min(joints)
    IN  IF joints = {} \/ SubSeq(link, 1, 1) # "[" \/ SubSeq(link, Len(link), Len(link)) # ")"
        THEN <<"", "">>
        ELSE <<SubSeq(link, 2, p - 1), SubSeq(link, p + Len(LinkJoint), Len(link) - 1)>>

\* C9 (as claimed): the display link of a row determines the display name
\* and the notebook name of its data line: two entries with the same link
\* have the same two names, so that re-parsing the link can recover them.
C9_LinkDeterminesNames ==
    pc = "table" =>
        \A i, j \in DOMAIN table_entries :
            LinkOf(i) = LinkOf(j) =>
                /\ table_entries[i].display_name = table_entries[j].display_name
                /\ table_entries[i].notebook_name = table_entries[j].notebook_name

\* C9 (amended): for a data line whose display name does not contain the
\* joint "](" + NOTEBOOKS_ROOT_PATH + "/", re-parsing the display link of its
\* row gives back the trimmed first and second field of the line.
C9_LinkRecoversNames ==
    pc = "table" =>
        \A i \in DOMAIN table_entries :
            LET field == split(data_file[i + 1], ",")
            IN  ~Contains(field[1], LinkJoint) =>
                    ParseLink(LinkOf(i)) = <<strip(field[1]), strip(field[2])>>

\* C9 witness: a rendered line whose names are recovered from its link, the
\* notebook name holding the joint.
C9_Witness ==
    /\ pc = "table"
    /\ \E i \in DOMAIN table_entries :
          /\ Contains(table_entries[i].notebook_name, LinkJoint)
          /\ ~Contains(table_entries[i].display_name, LinkJoint)
          /\ ParseLink(LinkOf(i)) =
                 <<table_entries[i].display_name, table_entries[i].notebook_name>>

====
